---- MODULE Spec2Model ----
(***************************************************************************)
(* Model of the add-mod ingestion pipeline of deadlock-modmanager:         *)
(* detectSource (the source classifier) and finalize (the stager) of the   *)
(* AddMods page, with validateAndGet of the metadata form.                 *)
(*                                                                         *)
(* Text is modelled as sequences of one-character strings, so that the     *)
(* regular expressions, toLowerCase, split and localeCompare of the code   *)
(* are computed rather than assumed.                                       *)
(***************************************************************************)
EXTENDS Integers, Sequences, FiniteSets, TLC

\* ------------------------------------------------------------------ bounds

\* Longest list of entries one drop or selection hands to detectSource.
MaxDrop == 3

\* Identifiers crypto.randomUUID hands out in one run: the finalize calls that
\* get as far as staging.
MaxMods == 1

\* Drops, selections and URL submissions the user makes in one run.
MaxEvents == 1

\* Finalize calls that can be under way at once (the Add button pressed again
\* before the first call has closed the dialog).
MaxConcurrent == 2

\* ------------------------------------------------------------- characters

UpperSeq == <<"A","B","C","D","E","F","G","H","I","J","K","L","M",
              "N","O","P","Q","R","S","T","U","V","W","X","Y","Z">>
LowerSeq == <<"a","b","c","d","e","f","g","h","i","j","k","l","m",
              "n","o","p","q","r","s","t","u","v","w","x","y","z">>
DigitSeq == <<"0","1","2","3","4","5","6","7","8","9">>

IndexIn(c, seq) == CHOOSE i \in 1..Len(seq) : seq[i] = c
IsIn(c, seq) == \E i \in 1..Len(seq) : seq[i] = c
IsUpper(c) == IsIn(c, UpperSeq)
IsLower(c) == IsIn(c, LowerSeq)
IsDigit(c) == IsIn(c, DigitSeq)

\* The UTF-16 code unit of a character (ASCII range).
CodeUnit(c) ==
  IF IsUpper(c) THEN 64 + IndexIn(c, UpperSeq)
  ELSE IF IsLower(c) THEN 96 + IndexIn(c, LowerSeq)
  ELSE IF IsDigit(c) THEN 47 + IndexIn(c, DigitSeq)
  ELSE CASE c = " " -> 32 [] c = "-" -> 45 [] c = "." -> 46
         [] c = "/" -> 47 [] c = "_" -> 95

LowerChar(c) == IF IsUpper(c) THEN LowerSeq[IndexIn(c, UpperSeq)] ELSE c

\* String.prototype.toLowerCase, and the effect of the /i flag.
ToLowerCase(s) == [i \in 1..Len(s) |-> LowerChar(s[i])]

\* String.prototype.endsWith, and a regular expression anchored with $.
EndsWith(s, suf) ==
  /\ Len(s) >= Len(suf)
  /\ SubSeq(s, Len(s) - Len(suf) + 1, Len(s)) = suf

\* String.prototype.trim (the only white space of the alphabet is " ").
RECURSIVE TrimLeft(_)
TrimLeft(s) == IF s # <<>> /\ Head(s) = " " THEN TrimLeft(Tail(s)) ELSE s
RECURSIVE TrimRight(_)
TrimRight(s) ==
  IF s # <<>> /\ s[Len(s)] = " " THEN TrimRight(SubSeq(s, 1, Len(s) - 1)) ELSE s
Trim(s) == TrimRight(TrimLeft(s))

\* String.prototype.split('/'): the segments between the slashes.
RECURSIVE SplitSlash(_, _)
SplitSlash(s, cur) ==
  IF s = <<>> THEN <<cur>>
  ELSE IF Head(s) = "/" THEN <<cur>> \o SplitSlash(Tail(s), <<>>)
  ELSE SplitSlash(Tail(s), Append(cur, Head(s)))
Split(s) == SplitSlash(s, <<>>)

DotVpk == <<".","v","p","k">>
DotZip == <<".","z","i","p">>
DotRar == <<".","r","a","r">>
Dot7z == <<".","7","z">>

\* /\.vpk$/i.test(name)
IsVpkName(name) == EndsWith(ToLowerCase(name), DotVpk)

\* /\.(zip|rar|7z)$/i.test(name)
IsArchiveName(name) ==
  \E suf \in {DotZip, DotRar, Dot7z} : EndsWith(ToLowerCase(name), suf)

\* ---------------------------------------------------------- dropped entries

\* A File of the browser: its name, its webkitRelativePath ("" when the entry
\* did not come from a folder), its bytes and, for what JSZip.loadAsync makes
\* of those bytes, whether they decode (zipOk) and the entries inside (inner).
MkFile(name, rel, bytes) ==
  [name |-> name, rel |-> rel, bytes |-> bytes, zipOk |-> FALSE, inner |-> <<>>]
MkZip(name, bytes, ok, inner) ==
  [name |-> name, rel |-> <<>>, bytes |-> bytes, zipOk |-> ok, inner |-> inner]
ZipEntry(name, dir, bytes) == [name |-> name, dir |-> dir, bytes |-> bytes]

VpkFiles ==
  { MkFile(<<"a",".","v","p","k">>, <<"z","/","a",".","v","p","k">>, "d1"),
    MkFile(<<"b",".","v","p","k">>, <<"a","/","b",".","v","p","k">>, "d2"),
    MkFile(<<"a",".","v","p","k">>, <<>>, "d3"),
    MkFile(<<"A",".","V","P","K">>, <<>>, "d4"),
    MkFile(<<"a",".","v","p","k">>, <<>>, "d5") }

OtherFiles ==
  { MkFile(<<"r",".","t","x","t">>, <<"z","/","r",".","t","x","t">>, "d6") }

ArchiveFiles ==
  { \* a decodable zip: a directory, a text file and one nested payload
    MkZip(<<"m",".","z","i","p">>, "a1", TRUE,
          << ZipEntry(<<"i","n","/">>, TRUE, "-"),
             ZipEntry(<<"i","n","/","r",".","t","x","t">>, FALSE, "z1"),
             ZipEntry(<<"i","n","/","s",".","V","P","K">>, FALSE, "z2") >>),
    \* a decodable zip without a payload (a directory named like one)
    MkZip(<<"n",".","Z","I","P">>, "a2", TRUE,
          << ZipEntry(<<"x",".","v","p","k","/">>, TRUE, "-"),
             ZipEntry(<<"r",".","t","x","t">>, FALSE, "z3") >>),
    \* bytes JSZip cannot decode
    MkZip(<<"c",".","z","i","p">>, "a3", FALSE, <<>>),
    MkZip(<<"p",".","R","a","r">>, "a4", FALSE, <<>>),
    MkZip(<<"q",".","7","z">>, "a5", FALSE, <<>>) }

Catalogue == VpkFiles \cup OtherFiles \cup ArchiveFiles

Injective(s) == \A i, j \in 1..Len(s) : i # j => s[i] # s[j]

\* The lists a drop or a selection can deliver: distinct entries, in any order.
DropLists ==
  { l : l \in UNION { { s \in [1..n -> Catalogue] : Injective(s) } : n \in 0..MaxDrop } }

\* ------------------------------------------------------------ detectSource

NoName == <<>>

\* DetectedSource | null, as one record shape: kind "none" is null; a vpk or
\* an archive holds its file as the one element of files.
NoSource == [kind |-> "none", files |-> <<>>, hasFolder |-> FALSE, folderName |-> NoName]
Single(kind, f) ==
  [kind |-> kind, files |-> <<f>>, hasFolder |-> FALSE, folderName |-> NoName]

\* Array.prototype.find, from what Array.prototype.filter (SelectSeq) gives
\* with the same test: the first match as a one-element list, or the empty list.
Find(matches) == IF matches = <<>> THEN <<>> ELSE <<Head(matches)>>

\* The two tests of detectSource on the entries a drop can hold, evaluated
\* once per entry.
VpkNamed == { g : g \in { f \in Catalogue : IsVpkName(f.name) } }
ArchiveNamed == { g : g \in { f \in Catalogue : IsArchiveName(f.name) } }

\* (f) => /\.vpk$/i.test(f.name)
FileIsVpk(f) == f \in VpkNamed
\* (f) => /\.(zip|rar|7z)$/i.test(f.name)
FileIsArchive(f) == f \in ArchiveNamed

detectSource_RuleOrder(files) ==
  IF Len(files) = 0 THEN NoSource
  ELSE
    LET flat == files
        anyVpk == SelectSeq(flat, FileIsVpk)
        archive == Find(SelectSeq(flat, FileIsArchive))
    IN IF anyVpk # <<>>
       THEN LET rel == anyVpk[1].rel
            IN [kind |-> "folder-vpk", files |-> anyVpk,
                hasFolder |-> rel # <<>>,
                folderName |-> IF rel # <<>> THEN Split(rel)[1] ELSE NoName]
       ELSE IF Len(flat) = 1 /\ archive # <<>> THEN Single("archive", archive[1])
       ELSE NoSource

detectSource(files) ==
  IF Len(files) = 0 THEN NoSource
  ELSE
    LET flat == files
        vpk == Find(SelectSeq(flat, FileIsVpk))
        archive == Find(SelectSeq(flat, FileIsArchive))
        anyVpk == SelectSeq(flat, FileIsVpk)
    IN IF Len(flat) = 1 /\ vpk # <<>> THEN Single("vpk", vpk[1])
       ELSE IF Len(flat) = 1 /\ archive # <<>> THEN Single("archive", archive[1])
       ELSE IF Len(anyVpk) >= 1
       THEN LET rel == anyVpk[1].rel
            IN [kind |-> "folder-vpk", files |-> anyVpk,
                hasFolder |-> rel # <<>>,
                folderName |-> IF rel # <<>> THEN Split(rel)[1] ELSE NoName]
       ELSE NoSource

\* ------------------------------------------------------------ localeCompare

fileName_BaseOnly(f) == f.name

\* fileName(file): webkitRelativePath || file.name
fileName(f) == IF f.rel # <<>> THEN f.rel ELSE f.name

\* The primary collation weight of a character in the root collation that
\* String.prototype.localeCompare uses: white space and punctuation sort before
\* digits, digits before letters, and a letter's case does not count.
PrimaryWeight(c) ==
  IF IsUpper(c) THEN 20 + IndexIn(c, UpperSeq)
  ELSE IF IsLower(c) THEN 20 + IndexIn(c, LowerSeq)
  ELSE IF IsDigit(c) THEN 9 + IndexIn(c, DigitSeq)
  ELSE CASE c = " " -> 0 [] c = "_" -> 1 [] c = "-" -> 2
         [] c = "." -> 3 [] c = "/" -> 4

\* Lexicographic comparison of two sequences of character weights: negative,
\* zero or positive.
CompareWeights(a, b) ==
  LET n == IF Len(a) < Len(b) THEN Len(a) ELSE Len(b)
      diff == { i \in 1..n : a[i] # b[i] }
  IN IF diff = {} THEN Len(a) - Len(b)
     ELSE LET i == CHOOSE k \in diff : \A j \in diff : k <= j
          IN a[i] - b[i]

PrimaryWeights(s) == [i \in 1..Len(s) |-> PrimaryWeight(s[i])]

\* a.localeCompare(b): primary weights decide; between strings that differ in
\* case only, the first difference decides, lower case first.
LocaleCompare(a, b) ==
  LET p == CompareWeights(PrimaryWeights(a), PrimaryWeights(b))
  IN IF p # 0 THEN p
     ELSE LET diff == { i \in 1..Len(a) : a[i] # b[i] }
          IN IF diff = {} THEN 0
             ELSE LET i == CHOOSE k \in diff : \A j \in diff : k <= j
                  IN IF IsUpper(a[i]) THEN 1 ELSE -1

\* Comparison by UTF-16 code units: case-sensitive lexical order.
CodeUnitCompare(a, b) ==
  CompareWeights([i \in 1..Len(a) |-> CodeUnit(a[i])], [i \in 1..Len(b) |-> CodeUnit(b[i])])

\* Array.prototype.sort with the comparator of the folder branch: stable.
RECURSIVE InsertSorted(_, _)
InsertSorted(x, s) ==
  IF s = <<>> THEN <<x>>
  ELSE IF LocaleCompare(fileName(x), fileName(Head(s))) < 0 THEN <<x>> \o s
  ELSE <<Head(s)>> \o InsertSorted(x, Tail(s))

RECURSIVE SortFiles(_)
SortFiles(s) ==
  IF s = <<>> THEN <<>>
  ELSE InsertSorted(s[Len(s)], SortFiles(SubSeq(s, 1, Len(s) - 1)))

\* ------------------------------------------------------------ metadata form

NoImage == [present |-> FALSE, name |-> NoName, bytes |-> "-"]
Image(name, bytes) == [present |-> TRUE, name |-> name, bytes |-> bytes]

\* What the user has typed into the name field when Add is pressed.
FormNames ==
  { <<"a">>, <<"a","b">>, <<" ","a","b"," ">>, <<" "," ">> }

\* The image the user has attached, if any.
FormImages ==
  { NoImage,
    Image(<<"i",".","J","P","G">>, "i1"),
    Image(<<"i",".","b","m","p">>, "i2") }

\* undefined and null, apart from every text (a text is a sequence of
\* one-character strings).
Undefined == <<"undefined">>
Null == <<"null">>

\* The values that || replaces: undefined, null and the empty string.
Falsy(x) == x \in {Undefined, Null, <<>>}
OrElse(x, y) == IF Falsy(x) THEN y ELSE x

Extras(author, description, link) ==
  [author |-> author, description |-> description, link |-> link]

\* The optional fields as the user left them: untouched; filled in, the author
\* padded with blanks; blank or emptied again; and a link that is no URL.
FormExtras ==
  { Extras(Undefined, Undefined, Undefined),
    Extras(<<" ","b"," ">>, <<"d">>, <<"h",":","x">>),
    Extras(<<" ">>, <<>>, <<>>),
    Extras(Undefined, Undefined, <<"x">>) }

FormOf(n, e, i) ==
  [name |-> n, author |-> e.author, description |-> e.description,
   link |-> e.link, imageFile |-> i]

\* The forms the user submits: every name with the optional fields untouched
\* and no image, and the name "ab" with every choice of optional fields and
\* image.
Forms ==
  { FormOf(n, Extras(Undefined, Undefined, Undefined), NoImage) : n \in FormNames }
    \union { FormOf(<<"a","b">>, e, i) : e \in FormExtras, i \in FormImages }

NoMeta ==
  [ok |-> FALSE, name |-> NoName, author |-> Undefined, description |-> Undefined,
   link |-> Undefined, imageFile |-> NoImage]

\* z.string().url(): the text parses as a URL, that is, it opens with a scheme
\* of letters and a colon.
IsUrl(t) ==
  \E i \in 2..Len(t) :
    /\ t[i] = ":"
    /\ \A j \in 1..(i - 1) : IsLower(t[j]) \/ IsUpper(t[j])

SchemaValid_NameOnly(form) == Len(form.name) >= 2

\* The rules of the zod schema that the bounded texts can break: name
\* z.string().min(2); link z.string().url(), optional or ''.
SchemaValid(form) ==
  /\ Len(form.name) >= 2
  /\ (form.link \in {Undefined, <<>>} \/ IsUrl(form.link))

\* values.x?.trim() || undefined
TrimOrUndefined(x) == IF x = Undefined THEN Undefined ELSE OrElse(Trim(x), Undefined)

\* validateAndGet: null (ok FALSE) when the schema rejects the form.
validateAndGet(form) ==
  IF ~SchemaValid(form) THEN NoMeta
  ELSE [ok |-> TRUE, name |-> Trim(form.name),
        author |-> TrimOrUndefined(form.author),
        description |-> TrimOrUndefined(form.description),
        link |-> TrimOrUndefined(form.link),
        imageFile |-> form.imageFile]

ImageExts ==
  { <<".","p","n","g">>, <<".","j","p","g">>, <<".","j","p","e","g">>,
    <<".","w","e","b","p">>, <<".","g","i","f">>, <<".","s","v","g">> }

\* name.match(/\.(png|jpe?g|webp|gif|svg)$/i): the matched text, or none.
ExtMatch(name) ==
  LET hits == { suf \in ImageExts : EndsWith(ToLowerCase(name), suf) }
  IN IF hits = {} THEN <<>>
     ELSE LET suf == CHOOSE x \in hits : TRUE
          IN SubSeq(name, Len(name) - Len(suf) + 1, Len(name))

Preview == <<"p","r","e","v","i","e","w">>

PreviewNameOf_KeepCase(m) ==
  IF m.imageFile.present
  THEN Preview \o (IF ExtMatch(m.imageFile.name) # <<>>
                   THEN ExtMatch(m.imageFile.name)
                   ELSE <<".","p","n","g">>)
  ELSE Preview \o <<".","s","v","g">>

\* previewName of finalize
PreviewNameOf(m) ==
  IF m.imageFile.present
  THEN Preview \o (IF ExtMatch(m.imageFile.name) # <<>>
                   THEN ToLowerCase(ExtMatch(m.imageFile.name))
                   ELSE <<".","p","n","g">>)
  ELSE Preview \o <<".","s","v","g">>

\* ------------------------------------------------------------- file system

\* The directories finalize derives with join(): <base>/mods, mods/<modId> and
\* mods/<modId>/files.
ModsRoot == [d |-> "mods", id |-> NoName]
ModDir_Shared(id) == [d |-> "mod", id |-> NoName]
ModDir(id) == [d |-> "mod", id |-> id]
FilesDir(id) == [d |-> "files", id |-> id]

\* mkdir(abs, { recursive: true }): the directory and its missing ancestors.
MkdirRecursive(ds, dir) ==
  ds \cup {dir}
     \cup (IF dir.d = "files" THEN {ModDir(dir.id), ModsRoot}
           ELSE IF dir.d = "mod" THEN {ModsRoot} ELSE {})

\* How a writeFile ends: "ok"; "fail", it throws and leaves no file (the file
\* could not be opened); "partial", it throws after creating the file (the
\* write broke off).
WriteOutcomes == {"ok", "fail", "partial"}

\* writeFile(abs, data): creates or replaces the file at dir/name.
WriteFile(fl, dir, name, data, out) ==
  IF out = "fail" THEN fl
  ELSE { f \in fl : ~(f.dir = dir /\ f.name = name) }
         \cup { [dir |-> dir, name |-> name, data |-> data, full |-> (out = "ok")] }

\* readDir(dir): the names of the entries in it.
ReadDir(fl, dir) == { f.name : f \in { g \in fl : g.dir = dir } }

MetadataJson == <<"m","e","t","a","d","a","t","a",".","j","s","o","n">>

LocalPrefix == <<"l","o","c","a","l","-">>

\* What crypto.randomUUID can return to the first n calls, as single characters.
Uuids(n) == { DigitSeq[i + 1] : i \in 1..n }

\* ------------------------------------------------------------------ state

Calls == 1..(IF MaxMods > MaxConcurrent THEN MaxMods ELSE MaxConcurrent)

VARIABLES
  dropped,      \* the entry list handed to detectSource (classifier runs)
  classified,   \* what detectSource returned for it, Pending before
  open,         \* useState open: the finalize dialog is shown
  detected,     \* useState detected
  sourceType,   \* the form's sourceType field
  notice,       \* the last toast of a handler that is not staging a mod
  formErrors,   \* the metadata form of the dialog shows validation errors
  events,       \* drops, selections and URL submissions handled so far
  pc,           \* per finalize call: where it stands
  modId,        \* per call: modId
  meta,         \* per call: what validateAndGet returned
  cdet,         \* per call: the detected its closure holds
  previewName,  \* per call: previewName
  toasts,       \* per call: the toasts it raised, in order
  fault,        \* per call: the step whose exception left finalize uncaught
  dirs,         \* the directories that exist under the app's local data
  fsFiles,      \* the files written with writeBytes / writeText of bytes
  docs,         \* the metadata documents written
  library       \* the persisted store: the registered mods

classifierVars == <<dropped, classified>>
uiVars == <<open, detected, sourceType, notice, formErrors, events>>
callVars == <<pc, modId, meta, cdet, previewName, toasts, fault>>
diskVars == <<dirs, fsFiles, docs>>
vars == <<dropped, classified, open, detected, sourceType, notice, formErrors, events, pc, modId,
          meta, cdet, previewName, toasts, fault, dirs, fsFiles, docs, library>>

Pending == [kind |-> "pending", files |-> <<>>, hasFolder |-> FALSE, folderName |-> NoName]

\* The state of the page after construction, nothing staged yet.
PageInit ==
  /\ open = FALSE
  /\ detected = NoSource
  /\ sourceType = "vpk"
  /\ notice = "none"
  /\ formErrors = FALSE
  /\ events = 0
  /\ pc = [c \in Calls |-> "idle"]
  /\ modId = [c \in Calls |-> NoName]
  /\ meta = [c \in Calls |-> NoMeta]
  /\ cdet = [c \in Calls |-> NoSource]
  /\ previewName = [c \in Calls |-> NoName]
  /\ toasts = [c \in Calls |-> <<>>]
  /\ fault = [c \in Calls |-> "none"]
  /\ fsFiles = {}
  /\ docs = {}
  /\ library = {}

\* ------------------------------------------ the classifier on its own inputs

ClassifyInit ==
  /\ dropped \in DropLists
  /\ classified = Pending
  /\ PageInit
  /\ dirs = {}

Classify ==
  /\ classified = Pending
  /\ classified' = detectSource(dropped)
  /\ UNCHANGED <<dropped, uiVars, callVars, diskVars, library>>

ClassifyNext == Classify

SpecClassify == ClassifyInit /\ [][ClassifyNext]_vars

\* ------------------------------------------------------- the page's handlers


\* detectSource over the lists a drop or a selection can deliver, tabulated
\* (the @@ makes the table an explicit function, built once).
DetectedOf == [fl \in DropLists |-> detectSource(fl)] @@ <<>>

HandleFiles_NoNullCheck(fl, unsupported) ==
  LET ds == DetectedOf[fl]
  IN /\ detected' = ds
     /\ sourceType' = ds.kind
     /\ open' = TRUE
     /\ formErrors' = FALSE
     /\ UNCHANGED notice

\* startDialog(ds) for a detected source, reached from a drop or a selection
\* that detectSource recognises; the toast and the return otherwise.
HandleFiles(fl, unsupported) ==
  LET ds == DetectedOf[fl]
  IN IF ds = NoSource
     THEN /\ notice' = unsupported
          /\ UNCHANGED <<open, detected, sourceType, formErrors>>
     ELSE /\ detected' = ds
          /\ sourceType' = ds.kind
          /\ open' = TRUE
          \* the dialog mounts a fresh metadata form
          /\ formErrors' = FALSE
          /\ UNCHANGED notice

\* onDrop of the drop zone; the zone lies behind the modal dialog.
OnDrop(fl) ==
  /\ ~open
  /\ events < MaxEvents
  /\ events' = events + 1
  /\ HandleFiles(fl, "unsupportedFiles")
  /\ UNCHANGED <<classifierVars, callVars, diskVars, library>>

\* onPickFiles of the hidden file input.
OnPickFiles(fl) ==
  /\ ~open
  /\ events < MaxEvents
  /\ events' = events + 1
  /\ HandleFiles(fl, "unsupportedSelection")
  /\ UNCHANGED <<classifierVars, callVars, diskVars, library>>

\* The Continue button or Enter in the URL field: startDialog({kind: 'url'})
\* for a GameBanana URL, a toast for any other text.
SubmitUrl(isGameBanana) ==
  /\ ~open
  /\ events < MaxEvents
  /\ events' = events + 1
  /\ IF isGameBanana
     THEN /\ sourceType' = "url"
          /\ detected' = NoSource
          /\ open' = TRUE
          /\ formErrors' = FALSE
          /\ UNCHANGED notice
     ELSE /\ notice' = "badUrl"
          /\ UNCHANGED <<open, detected, sourceType, formErrors>>
  /\ UNCHANGED <<classifierVars, callVars, diskVars, library>>

\* The Cancel button, Escape or the dialog's close: setOpen(false).
Cancel ==
  /\ open
  /\ open' = FALSE
  /\ formErrors' = FALSE
  /\ UNCHANGED <<classifierVars, detected, sourceType, notice, events, callVars,
                 diskVars, library>>

\* ---------------------------------------------------------------- finalize

UsedUuids == { modId[c][Len(modId[c])] : c \in { k \in Calls : modId[k] # NoName } }

\* The Add button: finalize up to the generated modId. The early returns
\* (validation, the URL flow, no detected source) end the call here. At most
\* n calls get as far as the modId.
FinalizeUpTo(form, n) ==
  /\ open
  /\ LET m == validateAndGet(form)
     IN IF ~m.ok
        \* form.trigger() shows the errors; finalize returns
        THEN /\ formErrors' = TRUE
             /\ UNCHANGED <<open, detected, sourceType, notice, events, callVars>>
        ELSE IF sourceType = "url"
        THEN /\ notice' = "urlInfo"
             /\ open' = FALSE
             /\ formErrors' = FALSE
             /\ UNCHANGED <<detected, sourceType, events, callVars>>
        ELSE IF detected = NoSource
        THEN /\ notice' = "noFiles"
             /\ formErrors' = FALSE
             /\ UNCHANGED <<open, detected, sourceType, events, callVars>>
        ELSE \E c \in 1..n, u \in Uuids(n) \ UsedUuids :
               /\ pc[c] = "idle"
               /\ \A k \in 1..n : pc[k] = "idle" => c <= k
               /\ pc' = [pc EXCEPT ![c] = "ensureRoot"]
               /\ modId' = [modId EXCEPT ![c] = LocalPrefix \o <<u>>]
               /\ meta' = [meta EXCEPT ![c] = m]
               /\ cdet' = [cdet EXCEPT ![c] = detected]
               /\ formErrors' = FALSE
               /\ UNCHANGED <<open, detected, sourceType, notice, events,
                              previewName, toasts, fault>>
  /\ UNCHANGED <<classifierVars, diskVars, library>>

Finalize(form) == FinalizeUpTo(form, MaxMods)

\* The directory an ensureDir step of a call is about, and the step after it.
EnsureTarget(c) ==
  CASE pc[c] \in {"ensureRoot", "mkdirRoot"} -> ModsRoot
    [] pc[c] \in {"ensureMod", "mkdirMod"} -> ModDir(modId[c])
    [] pc[c] \in {"ensureFiles", "mkdirFiles"} -> FilesDir(modId[c])
AfterEnsure(c) ==
  CASE pc[c] \in {"ensureRoot", "mkdirRoot"} -> "ensureMod"
    [] pc[c] \in {"ensureMod", "mkdirMod"} -> "ensureFiles"
    [] pc[c] \in {"ensureFiles", "mkdirFiles"} -> "preview"
MkdirStep(c) ==
  CASE pc[c] = "ensureRoot" -> "mkdirRoot"
    [] pc[c] = "ensureMod" -> "mkdirMod"
    [] pc[c] = "ensureFiles" -> "mkdirFiles"

\* ensureDir, first half: exists(abs).
EnsureDirExists(c) ==
  /\ pc[c] \in {"ensureRoot", "ensureMod", "ensureFiles"}
  /\ pc' = [pc EXCEPT ![c] = IF EnsureTarget(c) \in dirs THEN AfterEnsure(c)
                             ELSE MkdirStep(c)]
  /\ UNCHANGED <<classifierVars, uiVars, modId, meta, cdet, previewName, toasts,
                 fault, diskVars, library>>

\* ensureDir, second half: mkdir(abs, {recursive: true}), which may throw; no
\* handler of finalize catches it.
EnsureDirMkdir(c, ok) ==
  /\ pc[c] \in {"mkdirRoot", "mkdirMod", "mkdirFiles"}
  /\ IF ok
     THEN /\ dirs' = MkdirRecursive(dirs, EnsureTarget(c))
          /\ pc' = [pc EXCEPT ![c] = AfterEnsure(c)]
          /\ UNCHANGED fault
     ELSE /\ pc' = [pc EXCEPT ![c] = "crashed"]
          /\ fault' = [fault EXCEPT ![c] = "mkdir"]
          /\ UNCHANGED dirs
  /\ UNCHANGED <<classifierVars, uiVars, modId, meta, cdet, previewName, toasts,
                 fsFiles, docs, library>>

\* The preview image: the attached image under preview.<ext>, or the
\* placeholder under preview.svg. The write stands outside every try block.
WritePreview(c, out) ==
  /\ pc[c] = "preview"
  /\ LET name == PreviewNameOf(meta[c])
         data == IF meta[c].imageFile.present THEN meta[c].imageFile.bytes
                 ELSE "FALLBACK_SVG"
     IN /\ previewName' = [previewName EXCEPT ![c] = name]
        /\ fsFiles' = WriteFile(fsFiles, ModDir(modId[c]), name, data, out)
  /\ IF out = "ok"
     THEN /\ pc' = [pc EXCEPT ![c] = "payload"]
          /\ UNCHANGED fault
     ELSE /\ pc' = [pc EXCEPT ![c] = "crashed"]
          /\ fault' = [fault EXCEPT ![c] = "preview"]
  /\ UNCHANGED <<classifierVars, uiVars, modId, meta, cdet, toasts, dirs, docs,
                 library>>

ModVpk == <<"m","o","d",".","v","p","k">>

BaseName_KeepPath(name) == name

\* entry.name.split('/').pop() || 'mod.vpk'
BaseName(name) ==
  LET segs == Split(name)
  IN IF segs[Len(segs)] # <<>> THEN segs[Len(segs)] ELSE ModVpk

\* (f) => !f.dir && /\.vpk$/i.test(f.name)
IsPayloadEntry(e) == ~e.dir /\ IsVpkName(e.name)

Plan(throws, dir, name, bytes, warn, sorted) ==
  [throws |-> throws, dir |-> dir, name |-> name, bytes |-> bytes,
   warn |-> warn, sorted |-> sorted]

\* Where a staged payload goes: join(filesDir, ...).
PayloadDir == "files"

ArchiveFallbackDir_Files == "files"

\* Where an archive without a usable payload is stored: join(modDir, ...).
ArchiveFallbackDir == "mod"

DirOf(which, id) == IF which = "files" THEN FilesDir(id) ELSE ModDir(id)

\* The body of the try block, up to its one write: whether it throws before
\* writing, the directory (files/ or the mod's root), name and bytes it
\* writes, whether the "no .vpk inside" toast follows the write, and the
\* order it leaves detected.files in.
PayloadPlan(d) ==
  CASE d.kind = "vpk" ->
         Plan(FALSE, PayloadDir, d.files[1].name, d.files[1].bytes, FALSE, d.files)
    [] d.kind = "folder-vpk" ->
         LET sorted == SortFiles(d.files)
             first == Find(SelectSeq(sorted, FileIsVpk))
         IN IF first = <<>> THEN Plan(TRUE, PayloadDir, NoName, "-", FALSE, sorted)
            ELSE Plan(FALSE, PayloadDir, first[1].name, first[1].bytes, FALSE, sorted)
    [] d.kind = "archive" ->
         LET f == d.files[1]
         IN IF EndsWith(ToLowerCase(f.name), DotZip)
            THEN IF ~f.zipOk THEN Plan(TRUE, PayloadDir, NoName, "-", FALSE, d.files)
                 ELSE LET entry == Find(SelectSeq(f.inner, IsPayloadEntry))
                      IN IF entry = <<>>
                         THEN Plan(FALSE, ArchiveFallbackDir, f.name, f.bytes, TRUE,
                                   d.files)
                         ELSE Plan(FALSE, PayloadDir, BaseName(entry[1].name),
                                   entry[1].bytes, FALSE, d.files)
            ELSE Plan(FALSE, ArchiveFallbackDir, f.name, f.bytes, FALSE, d.files)

\* 'file' in detected
HasFileField(d) == d.kind \in {"vpk", "archive"}

\* The try block and the first half of its catch: the payload write, and on
\* any exception the "Failed to process archive" toast.
StagePayload(c, out) ==
  /\ pc[c] = "payload"
  /\ LET d == cdet[c]
         plan == PayloadPlan(d)
         dir == DirOf(plan.dir, modId[c])
         thrown == plan.throws \/ out # "ok"
     IN /\ cdet' = [cdet EXCEPT ![c].files = plan.sorted]
        \* sort() reorders the array that the detected state holds as well
        /\ detected' = IF detected = d THEN [detected EXCEPT !.files = plan.sorted]
                       ELSE detected
        /\ fsFiles' = IF plan.throws THEN fsFiles
                      ELSE WriteFile(fsFiles, dir, plan.name, plan.bytes, out)
        /\ toasts' = [toasts EXCEPT ![c] =
                        IF thrown THEN Append(@, "failedProcess")
                        ELSE IF plan.warn THEN Append(@, "noVpkInZip") ELSE @]
        /\ pc' = [pc EXCEPT ![c] =
                    IF thrown /\ HasFileField(d) THEN "catchWrite" ELSE "readDir"]
  /\ UNCHANGED <<classifierVars, open, sourceType, notice, formErrors, events, modId,
                 meta, previewName, fault, dirs, docs, library>>

\* The second half of the catch: the dropped file is written to the mod's
\* root; an exception here leaves finalize.
CatchWrite(c, out) ==
  /\ pc[c] = "catchWrite"
  /\ LET f == cdet[c].files[1]
     IN fsFiles' = WriteFile(fsFiles, ModDir(modId[c]), f.name, f.bytes, out)
  /\ IF out = "ok"
     THEN /\ pc' = [pc EXCEPT ![c] = "readDir"]
          /\ UNCHANGED fault
     ELSE /\ pc' = [pc EXCEPT ![c] = "crashed"]
          /\ fault' = [fault EXCEPT ![c] = "catchWrite"]
  /\ UNCHANGED <<classifierVars, uiVars, modId, meta, cdet, previewName, toasts,
                 dirs, docs, library>>

\* filesList.some((e) => /\.vpk$/i.test(e.name || ''))
HasVpk(fl, id) == \E n \in ReadDir(fl, FilesDir(id)) : IsVpkName(n)

\* readDir(filesDir) and the test that decides on the second archive copy.
CheckFilesDir(c) ==
  /\ pc[c] = "readDir"
  /\ pc' = [pc EXCEPT ![c] =
              IF ~HasVpk(fsFiles, modId[c]) /\ cdet[c].kind = "archive"
              THEN "safetyWrite" ELSE "metadata"]
  /\ UNCHANGED <<classifierVars, uiVars, modId, meta, cdet, previewName, toasts,
                 fault, diskVars, library>>

\* The archive copied into the mod's root when files/ holds no payload.
SafetyWrite(c, out) ==
  /\ pc[c] = "safetyWrite"
  /\ LET f == cdet[c].files[1]
     IN fsFiles' = WriteFile(fsFiles, ModDir(modId[c]), f.name, f.bytes, out)
  /\ IF out = "ok"
     THEN /\ pc' = [pc EXCEPT ![c] = "metadata"]
          /\ UNCHANGED fault
     ELSE /\ pc' = [pc EXCEPT ![c] = "crashed"]
          /\ fault' = [fault EXCEPT ![c] = "safetyWrite"]
  /\ UNCHANGED <<classifierVars, uiVars, modId, meta, cdet, previewName, toasts,
                 dirs, docs, library>>

\* The metadata object of finalize.
Unknown == <<"U","n","k","n","o","w","n">>

MetadataOf(c) ==
  [id |-> modId[c], kind |-> "local", name |-> meta[c].name,
   author |-> OrElse(meta[c].author, Unknown),
   link |-> OrElse(meta[c].link, Null),
   description |-> OrElse(meta[c].description, Null),
   preview |-> previewName[c], schema |-> 1]

WriteMetadata_Unchecked(c, out) ==
  /\ pc[c] = "metadata"
  /\ docs' = IF out = "fail" THEN docs
             ELSE { x \in docs : x.dir # ModDir(modId[c]) }
                    \cup { [dir |-> ModDir(modId[c]), name |-> MetadataJson,
                            doc |-> MetadataOf(c), full |-> (out = "ok")] }
  /\ pc' = [pc EXCEPT ![c] = "register"]
  /\ UNCHANGED <<classifierVars, uiVars, modId, meta, cdet, previewName, toasts,
                 fault, dirs, fsFiles, library>>

\* writeText(modDir/metadata.json, JSON.stringify(metadata))
WriteMetadata(c, out) ==
  /\ pc[c] = "metadata"
  /\ docs' = IF out = "fail" THEN docs
             ELSE { x \in docs : x.dir # ModDir(modId[c]) }
                    \cup { [dir |-> ModDir(modId[c]), name |-> MetadataJson,
                            doc |-> MetadataOf(c), full |-> (out = "ok")] }
  /\ IF out = "ok"
     THEN /\ pc' = [pc EXCEPT ![c] = "register"]
          /\ UNCHANGED fault
     ELSE /\ pc' = [pc EXCEPT ![c] = "crashed"]
          /\ fault' = [fault EXCEPT ![c] = "metadata"]
  /\ UNCHANGED <<classifierVars, uiVars, modId, meta, cdet, previewName, toasts,
                 dirs, fsFiles, library>>

\* addMod, setModPath, setModStatus, the success toast and setOpen(false).
Register(c) ==
  /\ pc[c] = "register"
  /\ library' = library \cup { [id |-> modId[c], path |-> ModDir(modId[c]),
                                status |-> "DOWNLOADED"] }
  /\ toasts' = [toasts EXCEPT ![c] = Append(@, "success")]
  /\ open' = FALSE
  /\ formErrors' = FALSE
  /\ pc' = [pc EXCEPT ![c] = "done"]
  /\ UNCHANGED <<classifierVars, detected, sourceType, notice, events, modId, meta,
                 cdet, previewName, fault, diskVars>>

\* ------------------------------------------------------------ specification

Init ==
  /\ dropped = <<>>
  /\ classified = Pending
  /\ PageInit
  \* the mods directory may be there from an earlier run
  /\ dirs \in { {}, {ModsRoot} }

Next ==
  \/ (~open /\ events < MaxEvents /\ \E fl \in DropLists : OnDrop(fl))
  \/ (~open /\ events < MaxEvents /\ \E fl \in DropLists : OnPickFiles(fl))
  \/ \E g \in BOOLEAN : SubmitUrl(g)
  \/ Cancel
  \/ \E form \in Forms : Finalize(form)
  \/ \E c \in Calls : EnsureDirExists(c)
  \/ \E c \in Calls, ok \in BOOLEAN : EnsureDirMkdir(c, ok)
  \/ \E c \in Calls, out \in WriteOutcomes : WritePreview(c, out)
  \/ \E c \in Calls, out \in WriteOutcomes : StagePayload(c, out)
  \/ \E c \in Calls, out \in WriteOutcomes : CatchWrite(c, out)
  \/ \E c \in Calls : CheckFilesDir(c)
  \/ \E c \in Calls, out \in WriteOutcomes : SafetyWrite(c, out)
  \/ \E c \in Calls, out \in WriteOutcomes : WriteMetadata(c, out)
  \/ \E c \in Calls : Register(c)

Spec == Init /\ [][Next]_vars

\* ------------------------------------------------- concurrent finalize calls

\* The drops the concurrent runs start from: a single payload, a zip with a
\* nested payload, a folder of two payloads, and an archive JSZip cannot read.
ConcurrentDrops ==
  { l : l \in { fl \in DropLists :
                  \/ /\ Len(fl) = 1
                     /\ fl[1].bytes \in {"d3", "a1", "a4"}
                  \/ /\ Len(fl) = 2
                     /\ fl[1].bytes = "d1" /\ fl[2].bytes = "d2" } }

\* The forms of the concurrent runs: a name, with or without an image.
ConcurrentForms ==
  { f : f \in { g \in Forms : /\ g.name = <<"a","b">>
                               /\ g.author = Undefined /\ g.link = Undefined
                               /\ g.imageFile.name # <<"i",".","b","m","p">> } }

\* The page with the Add button pressed up to MaxConcurrent times while the
\* dialog is open: the steps of the calls interleave at every await.
NextConcurrent ==
  \/ (~open /\ events < MaxEvents /\ \E fl \in ConcurrentDrops : OnDrop(fl))
  \/ \E form \in ConcurrentForms : FinalizeUpTo(form, MaxConcurrent)
  \/ \E c \in Calls : EnsureDirExists(c)
  \/ \E c \in Calls, ok \in BOOLEAN : EnsureDirMkdir(c, ok)
  \/ \E c \in Calls, out \in WriteOutcomes : WritePreview(c, out)
  \/ \E c \in Calls, out \in WriteOutcomes : StagePayload(c, out)
  \/ \E c \in Calls, out \in WriteOutcomes : CatchWrite(c, out)
  \/ \E c \in Calls : CheckFilesDir(c)
  \/ \E c \in Calls, out \in WriteOutcomes : SafetyWrite(c, out)
  \/ \E c \in Calls, out \in WriteOutcomes : WriteMetadata(c, out)
  \/ \E c \in Calls : Register(c)

SpecConcurrent == Init /\ [][NextConcurrent]_vars

\* -------------------------------------------------------------------- C1

\* The five precedence rules of the classifier, as the specification words
\* them: counted matches, not find/filter.
MatchingIdx(files) == { i \in 1..Len(files) : IsVpkName(files[i].name) }
FirstSegment(rel) ==
  IF \E i \in 1..Len(rel) : rel[i] = "/"
  THEN SubSeq(rel, 1, (CHOOSE i \in 1..Len(rel) :
                         rel[i] = "/" /\ \A j \in 1..(i - 1) : rel[j] # "/") - 1)
  ELSE rel

RuleHolds(files, r) ==
  LET n == Len(files)
      m == MatchingIdx(files)
  IN IF n = 0 THEN r.kind = "none"
     ELSE IF n = 1 /\ m # {} THEN r.kind = "vpk" /\ r.files = <<files[1]>>
     ELSE IF n = 1 /\ IsArchiveName(files[1].name)
          THEN r.kind = "archive" /\ r.files = <<files[1]>>
     ELSE IF m # {}
          THEN /\ r.kind = "folder-vpk"
               /\ Len(r.files) = Cardinality(m)
               \* exactly the matching entries, in their order of the drop
               /\ \E idx \in [1..Cardinality(m) -> m] :
                     /\ \A i, j \in 1..Cardinality(m) : i < j => idx[i] < idx[j]
                     /\ \A i \in 1..Cardinality(m) : r.files[i] = files[idx[i]]
               /\ LET first == files[CHOOSE i \in m : \A j \in m : i <= j]
                  IN IF first.rel = <<>> THEN ~r.hasFolder
                     ELSE r.hasFolder /\ r.folderName = FirstSegment(first.rel)
     ELSE r.kind = "none"

\* C1: for every list of dropped entries detectSource returns what the five
\* precedence rules give, first match winning: empty -> null; one entry ending
\* in .vpk -> vpk; one entry ending in .zip/.rar/.7z -> archive; otherwise at
\* least one .vpk entry -> folder-vpk with exactly the matching entries and the
\* first segment of the first match's relative path as folder name (absent
\* without a relative path); otherwise null.
C1_ClassifyFollowsRules ==
  classified # Pending => RuleHolds(dropped, classified)

\* A three-entry drop with a non-matching entry first: classified as a folder
\* of two payloads, named after the first match's folder.
C1_Witness ==
  /\ classified.kind = "folder-vpk"
  /\ Len(dropped) = 3
  /\ Len(classified.files) = 2
  /\ ~IsVpkName(dropped[1].name)
  /\ classified.hasFolder
  /\ classified.folderName = <<"z">>

\* ------------------------------------------------- what the claims speak of

\* The call has run its payload step (the try block).
PastPayload(c) ==
  \/ pc[c] \in {"catchWrite", "readDir", "safetyWrite", "metadata", "register", "done"}
  \/ pc[c] = "crashed" /\ fault[c] \in {"catchWrite", "safetyWrite", "metadata"}

FilesUnder(dir) == { g \in fsFiles : g.dir = dir }
FileRec(dir, name, data) == [dir |-> dir, name |-> name, data |-> data, full |-> TRUE]

IsZipSource(d) == d.kind = "archive" /\ EndsWith(ToLowerCase(d.files[1].name), DotZip)
PayloadEntries(d) == SelectSeq(d.files[1].inner, IsPayloadEntry)

\* The try block raised its exception at a write, not while decoding the zip.
PayloadWriteFailed(c) ==
  /\ \E i \in 1..Len(toasts[c]) : toasts[c][i] = "failedProcess"
  /\ ~(IsZipSource(cdet[c]) /\ ~cdet[c].files[1].zipOk)

Raised(c, t) == \E i \in 1..Len(toasts[c]) : toasts[c][i] = t

Registered(c) == \E r \in library : r.id = modId[c]
MetadataWritten(c) == \E x \in docs : x.dir = ModDir(modId[c]) /\ x.name = MetadataJson

\* -------------------------------------------------------------------- C2

\* C2 (as claimed): an I/O error while writing the payload in the try block is
\* fatal: afterwards no metadata document is written, no mod is registered
\* and no success is reported.
C2_PayloadErrorIsFatal ==
  \A c \in Calls :
    PayloadWriteFailed(c) =>
      /\ ~MetadataWritten(c)
      /\ ~Registered(c)
      /\ ~Raised(c, "success")
      /\ pc[c] # "done"

\* -------------------------------------------------------------------- C3

\* C3 (as claimed): a failure of the preview write never fails the staging
\* operation: no finalize call is ended by the preview write's exception.
C3_PreviewErrorNotFatal ==
  \A c \in Calls : ~(pc[c] = "crashed" /\ fault[c] = "preview")

\* -------------------------------------------------------------------- C4

\* The key the folder branch sorts by, as the amended claim words it: the
\* relative path when the entry has one, its name otherwise.
SortKey(f) == IF f.rel = <<>> THEN f.name ELSE f.rel

\* The entry of a list that a stable sort by localeCompare of the keys puts
\* first: no entry compares before it, and none that ties with it precedes it.
StableFirst(l) ==
  l[CHOOSE i \in 1..Len(l) :
      /\ \A j \in 1..Len(l) : LocaleCompare(SortKey(l[i]), SortKey(l[j])) <= 0
      /\ \A j \in 1..(i - 1) : LocaleCompare(SortKey(l[j]), SortKey(l[i])) # 0]

C5_NonZipArchiveWarns ==
  \A c \in Calls :
    (pc[c] = "done" /\ cdet[c].kind = "archive" /\ ~IsZipSource(cdet[c]))
    => /\ FileRec(ModDir(modId[c]), cdet[c].files[1].name, cdet[c].files[1].bytes)
            \in fsFiles
       /\ FilesUnder(FilesDir(modId[c])) = {}
       /\ (Raised(c, "noVpkInZip") \/ Raised(c, "failedProcess"))

\* -------------------------------------------------------------------- C6

ZipWithoutPayload(d) ==
  IsZipSource(d) /\ d.files[1].zipOk /\ PayloadEntries(d) = <<>>

\* C6: a completed staging of a decodable .zip without a payload entry has
\* the whole archive, once, at the mod's root and nothing under files/; it
\* raised a warning toast ("No .vpk found inside .zip", or "Failed to process
\* archive" when the first store failed), wrote the metadata and registered
\* the mod; and the step that completes it closes the dialog.
C6_ZipWithoutPayloadStoredWhole ==
  /\ [](\A c \in Calls :
          (pc[c] = "done" /\ ZipWithoutPayload(cdet[c]))
          => LET f == cdet[c].files[1]
                 root == ModDir(modId[c])
             IN /\ FilesUnder(root)
                     = { FileRec(root, f.name, f.bytes),
                         CHOOSE g \in FilesUnder(root) : g.name = previewName[c] }
                /\ Cardinality(FilesUnder(root)) = 2
                /\ FilesUnder(FilesDir(modId[c])) = {}
                /\ (Raised(c, "noVpkInZip") \/ Raised(c, "failedProcess"))
                /\ ~Raised(c, "failedProcess")
                     => toasts[c] = <<"noVpkInZip", "success">>
                /\ MetadataWritten(c)
                /\ Registered(c))
  /\ [][ \A c \in Calls :
           (pc[c] # "done" /\ pc'[c] = "done" /\ ZipWithoutPayload(cdet[c]))
           => ~open' ]_vars

\* n.ZIP staged without any write error.
C6_Witness ==
  \E c \in Calls :
    /\ pc[c] = "done"
    /\ ZipWithoutPayload(cdet[c])
    /\ toasts[c] = <<"noVpkInZip", "success">>
    /\ ~open

\* -------------------------------------------------------------------- C7

\* The text after the last slash of a path.
AfterLastSlash(name) ==
  LET slashes == { i \in 1..Len(name) : name[i] = "/" }
  IN IF slashes = {} THEN name
     ELSE SubSeq(name, (CHOOSE i \in slashes : \A j \in slashes : j <= i) + 1,
                 Len(name))

ZipWithOnePayload(d) ==
  IsZipSource(d) /\ d.files[1].zipOk /\ Len(PayloadEntries(d)) = 1

\* C7: once the payload step has run on a decodable .zip with exactly one
\* entry matching .vpk, files/ holds nothing but that entry's bytes under the
\* entry's base name (the text after its last slash), and holds exactly that
\* file, complete, when the write did not fail.
C7_ZipPayloadExtractedByBaseName ==
  \A c \in Calls :
    (PastPayload(c) /\ ZipWithOnePayload(cdet[c]))
    => LET e == PayloadEntries(cdet[c])[1]
           dir == FilesDir(modId[c])
       IN /\ \A g \in FilesUnder(dir) :
               g.name = AfterLastSlash(e.name) /\ g.data = e.bytes
          /\ ~Raised(c, "failedProcess")
               => FilesUnder(dir) = { FileRec(dir, AfterLastSlash(e.name), e.bytes) }

\* m.zip, whose payload is in/s.VPK: files/s.VPK holds its bytes.
C7_Witness ==
  \E c \in Calls :
    /\ pc[c] = "done"
    /\ ZipWithOnePayload(cdet[c])
    /\ FilesUnder(FilesDir(modId[c]))
         = { FileRec(FilesDir(modId[c]), <<"s",".","V","P","K">>, "z2") }

\* -------------------------------------------------------------------- C8

\* C8 (as claimed): a failure to create the mods root, the mod's directory or
\* files/ raises exactly one notification, registers no mod and is handled,
\* not left as an uncaught exception.
C8_DirFailureNotifiedOnce ==
  \A c \in Calls :
    fault[c] = "mkdir" =>
      /\ Len(toasts[c]) = 1
      /\ ~Registered(c)
      /\ pc[c] # "crashed"

\* -------------------------------------------------------------------- C9

\* The lists that rules 1 and 5 of the classifier leave unrecognised: no entry
\* matches .vpk, and the list is not a single archive.
UnrecognisedLists ==
  { l : l \in { fl \in DropLists :
                  /\ MatchingIdx(fl) = {}
                  /\ ~(Len(fl) = 1 /\ IsArchiveName(fl[1].name)) } }

\* C9 (as claimed): finalize with valid metadata and no detected source ends
\* with the "No files detected" outcome, writes and registers nothing, and
\* does not close the dialog.
C9_NoSourceOutcome ==
  [][ \A form \in Forms :
        (Finalize(form) /\ detected = NoSource /\ validateAndGet(form).ok)
        => /\ notice' = "noFiles"
           /\ open' = open
           /\ UNCHANGED <<diskVars, library>> ]_vars

\* C9 (amended): finalize without a detected source creates no directory,
\* writes no file and registers no mod; but detected is null only in the URL
\* flow, where finalize raises the URL notice and closes the dialog, and the
\* "No files detected" outcome is never reached. A drop or a selection that
\* detectSource does not recognise never opens the dialog and leaves the
\* detected source as it was.
C9_NoSourceOnlyInUrlFlow ==
  /\ [](notice # "noFiles")
  /\ [][ \A form \in Forms :
           (Finalize(form) /\ detected = NoSource)
           => /\ UNCHANGED <<diskVars, library, callVars, detected>>
              /\ validateAndGet(form).ok
                   => (sourceType = "url" /\ notice' = "urlInfo" /\ ~open') ]_vars
  /\ [][ events' # events
           => \A fl \in UnrecognisedLists :
                (OnDrop(fl) \/ OnPickFiles(fl))
                => /\ ~open'
                   /\ detected' = detected
                   /\ notice' \in {"unsupportedFiles", "unsupportedSelection"}
                   /\ UNCHANGED <<diskVars, library, callVars>> ]_vars

\* The Add button pressed in the URL flow: nothing detected, nothing written,
\* the dialog closed.
C9_Witness ==
  /\ notice = "urlInfo"
  /\ detected = NoSource
  /\ ~open
  /\ dirs \subseteq {ModsRoot}
  /\ fsFiles = {} /\ docs = {} /\ library = {}

\* -------------------------------------------------------------------- C10

ArchiveInRoot(c) ==
  \E g \in FilesUnder(ModDir(modId[c])) : g.name = cdet[c].files[1].name
FilesHoldPayload(c) ==
  \E g \in FilesUnder(FilesDir(modId[c])) : IsVpkName(g.name)

\* C10 (as claimed): after a completed staging of an archive, the archive is
\* in the mod's root if and only if files/ holds no entry matching .vpk.
C10_ArchiveIffNoPayload ==
  \A c \in Calls :
    (pc[c] = "done" /\ cdet[c].kind = "archive")
    => (ArchiveInRoot(c) <=> ~FilesHoldPayload(c))

\* -------------------------------------------------------------------- C11

Started(c) == pc[c] # "idle"
OwnDirs(c) == { ModDir(modId[c]), FilesDir(modId[c]) }
OwnFiles(fl, c) == { g \in fl : g.dir \in OwnDirs(c) }

\* What a call that met no exception leaves in its directories: the preview
\* and the one file of its payload step.
ExpectedFiles(c) ==
  LET plan == PayloadPlan(cdet[c])
      img == meta[c].imageFile
  IN { FileRec(ModDir(modId[c]), PreviewNameOf(meta[c]),
               IF img.present THEN img.bytes ELSE "FALLBACK_SVG"),
       FileRec(DirOf(plan.dir, modId[c]), plan.name, plan.bytes) }

\* C11: concurrent finalize calls have distinct identifiers; every file and
\* document on disk lies in the mods/<id>/ tree of exactly one started call,
\* and the only other directory is the mods root; a step of one call leaves
\* the files and documents of every other call as they were; and a call that
\* completes without an exception of its own has in its tree exactly the
\* preview and payload it would have staged alone, whatever the other call did
\* in between.
C11_CallsKeepToOwnDirs ==
  /\ [](/\ \A c, k \in Calls : (Started(c) /\ Started(k) /\ c # k) => modId[c] # modId[k]
        /\ \A g \in fsFiles \cup docs :
             \E c \in Calls : /\ Started(c) /\ g.dir \in OwnDirs(c)
                               /\ \A k \in Calls : (Started(k) /\ g.dir \in OwnDirs(k)) => k = c
        /\ dirs \subseteq {ModsRoot} \cup UNION { OwnDirs(c) : c \in { k \in Calls : Started(k) } }
        /\ \A c \in Calls :
             (pc[c] = "done" /\ ~Raised(c, "failedProcess"))
             => /\ OwnFiles(fsFiles, c) = ExpectedFiles(c)
                /\ \E x \in docs : /\ OwnFiles(docs, c) = {x}
                                    /\ x.full /\ x.doc.id = modId[c])
  /\ [][ \A c \in Calls :
           (Started(c) /\ pc'[c] = pc[c])
           => /\ OwnFiles(fsFiles', c) = OwnFiles(fsFiles, c)
              /\ OwnFiles(docs', c) = OwnFiles(docs, c) ]_vars

\* Two calls on the same dropped zip, both completed, each with its own
\* payload and metadata document, the mods root created once for both.
C11_Witness ==
  /\ \A c \in 1..MaxConcurrent : pc[c] = "done" /\ ~Raised(c, "failedProcess")
  /\ Cardinality(library) = MaxConcurrent
  /\ Cardinality(docs) = MaxConcurrent
  /\ Cardinality(fsFiles) = 2 * MaxConcurrent

\* -------------------------------------------------------------------- C12

AllBlank(t) == \A i \in 1..Len(t) : t[i] = " "

\* t is raw without the blanks at its two ends.
IsTrimOf(t, raw) ==
  /\ t = <<>> \/ (t[1] # " " /\ t[Len(t)] # " ")
  /\ \E i \in 0..Len(raw) :
       /\ i + Len(t) <= Len(raw)
       /\ SubSeq(raw, i + 1, i + Len(t)) = t
       /\ AllBlank(SubSeq(raw, 1, i))
       /\ AllBlank(SubSeq(raw, i + Len(t) + 1, Len(raw)))

\* An optional field of the document: the default when the field was left
\* out or holds nothing but blanks, the supplied text without its outer blanks
\* otherwise.
OptionalIs(v, raw, default) ==
  IF raw = Undefined \/ AllBlank(raw) THEN v = default ELSE IsTrimOf(v, raw)

\* The preview name the rule of step 2 gives for an attached image.
PreviewRule(img, name) ==
  IF ~img.present THEN name = <<"p","r","e","v","i","e","w",".","s","v","g">>
  ELSE LET low == ToLowerCase(img.name)
           exts == { e \in ImageExts : EndsWith(low, e) }
       IN IF exts = {} THEN name = <<"p","r","e","v","i","e","w",".","p","n","g">>
          ELSE \E e \in exts : name = <<"p","r","e","v","i","e","w">> \o e

\* C12: the metadata document of a call holds the generated id, kind "local",
\* _schema 1, the name, author ("Unknown" when absent), link and description
\* (null when absent) of the metadata record, and as preview the name of the
\* preview file written to the mod's root, which follows the extension rule;
\* and the record a finalize call starts from holds the form's name trimmed
\* and its optional fields trimmed, absent when empty.
C12_MetadataDocument ==
  /\ [](\A c \in Calls : \A x \in docs :
          (x.dir = ModDir(modId[c]) /\ Started(c))
          => /\ x.name = MetadataJson
             /\ x.doc.id = modId[c] /\ x.doc.kind = "local" /\ x.doc.schema = 1
             /\ x.doc.name = meta[c].name
             /\ x.doc.author = (IF meta[c].author \in {Undefined, <<>>} THEN Unknown
                                ELSE meta[c].author)
             /\ x.doc.link = (IF meta[c].link \in {Undefined, <<>>} THEN Null
                              ELSE meta[c].link)
             /\ x.doc.description = (IF meta[c].description \in {Undefined, <<>>} THEN Null
                                     ELSE meta[c].description)
             /\ PreviewRule(meta[c].imageFile, x.doc.preview)
             /\ \E g \in FilesUnder(ModDir(modId[c])) :
                  /\ g.name = x.doc.preview /\ g.full
                  /\ g.data = (IF meta[c].imageFile.present THEN meta[c].imageFile.bytes
                               ELSE "FALLBACK_SVG"))
  /\ [][ \A form \in Forms : \A c \in Calls :
           (Finalize(form) /\ pc[c] = "idle" /\ pc'[c] # "idle")
           => /\ IsTrimOf(meta'[c].name, form.name)
              /\ OptionalIs(meta'[c].author, form.author, Undefined)
              /\ OptionalIs(meta'[c].link, form.link, Undefined)
              /\ OptionalIs(meta'[c].description, form.description, Undefined)
              /\ meta'[c].imageFile = form.imageFile ]_vars

\* A staged mod whose form had a padded author, a link, a description and an
\* image named i.JPG: the document names preview.jpg and the author "b".
C12_Witness ==
  \E c \in Calls : \E x \in docs :
    /\ pc[c] = "done"
    /\ x.dir = ModDir(modId[c]) /\ x.full
    /\ x.doc.author = <<"b">>
    /\ x.doc.link = <<"h",":","x">>
    /\ x.doc.description = <<"d">>
    /\ x.doc.preview = <<"p","r","e","v","i","e","w",".","j","p","g">>

\* -------------------------------------------------------------------- C13

\* The lists that hold the entries of s in another order.
OrdersOf(s) ==
  { [i \in 1..Len(s) |-> s[f[i]]] :
      f \in { g \in [1..Len(s) -> 1..Len(s)] : \A i, j \in 1..Len(s) : i # j => g[i] # g[j] } }

\* C13 (as claimed): the payload staged for a folder source does not depend
\* on the order of the dropped entries: whatever the order of the matching
\* entries, equal sort keys included, staging writes the same file (same
\* name, same bytes) under files/.
C13_PayloadOrderIndependent ==
  \A c \in Calls :
    (cdet[c].kind = "folder-vpk" /\ PastPayload(c) /\ ~Raised(c, "failedProcess"))
    => \A p \in OrdersOf(cdet[c].files) :
         LET plan == PayloadPlan([cdet[c] EXCEPT !.files = p])
         IN FilesUnder(FilesDir(modId[c]))
              = { FileRec(FilesDir(modId[c]), plan.name, plan.bytes) }

\* -------------------------------------------------------------------- C14

\* The mod's directory, its preview file and its metadata document are in
\* place, complete, in the given state of the disk.
StagedOnDisk(c, ds, fl, dc) ==
  /\ ModDir(modId[c]) \in ds
  /\ \E g \in fl : g.dir = ModDir(modId[c]) /\ g.name = previewName[c] /\ g.full
  /\ \E x \in dc : /\ x.dir = ModDir(modId[c]) /\ x.name = MetadataJson
                    /\ x.full /\ x.doc.id = modId[c]

BreaksSchema(form) ==
  \/ Len(form.name) < 2
  \/ /\ form.link # Undefined /\ form.link # <<>>
     /\ ~(\E i \in 2..Len(form.link) : form.link[i] = ":")

\* C15: a finalize call whose form fails validation generates no identifier,
\* starts no staging, creates no directory or file, registers no mod, leaves
\* the detected source as it was and the dialog open.
C15_InvalidFormChangesNothing ==
  [][ \A form \in Forms :
        (Finalize(form) /\ BreaksSchema(form))
        => /\ UNCHANGED <<pc, modId, meta, cdet, toasts, notice>>
           /\ UNCHANGED <<dirs, fsFiles, docs, library>>
           /\ UNCHANGED <<detected, sourceType>>
           /\ open /\ open' ]_vars

\* Add pressed with an invalid form on a detected source: the form shows its
\* errors, nothing is staged, the dialog is still open.
C15_Witness ==
  /\ formErrors
  /\ open
  /\ detected # NoSource
  /\ \A c \in Calls : pc[c] = "idle" /\ modId[c] = NoName
  /\ dirs \subseteq {ModsRoot} /\ fsFiles = {} /\ docs = {} /\ library = {}

\* -------------------------------------------------------------------- C16

\* C16 (as claimed): every metadata record validateAndGet returns has a name
\* of at least two characters after trimming, so that no metadata document is
\* ever written with an empty name.
C16_NameNeverEmpty ==
  /\ \A c \in Calls : meta[c].ok => Len(meta[c].name) >= 2
  /\ \A x \in docs : x.doc.name # <<>>

====
